---- MODULE Spec2Model ----
(***************************************************************************)
(* Model of src/src/sdk/realtime.ts: NodeRealtimeClient (connection        *)
(* lifecycle, reconnect policy, heartbeat, outbound queue, routing) and    *)
(* RealtimeSubscription (subscribe flag, handler map, dispatch).           *)
(*                                                                         *)
(* One action is one callback run to completion by the JavaScript event    *)
(* loop: an API call made by the application, a transport notification     *)
(* (onopen, onmessage, onerror, onclose), a timer callback, or the         *)
(* completion of the dynamic import of "ws".  The promise reactions        *)
(* (.finally of connect) run as microtasks right after the callback that   *)
(* settles the promise and are part of that action.                        *)
(*                                                                         *)
(* Time is counted in units of 10 s.  Retries-exhausted listeners are      *)
(* taken to return normally; a status listener sends one chat command      *)
(* when it is notified of 'connected'; a subscription handler returns,     *)
(* throws, or calls unsubscribe() or on() on its subscription.             *)
(***************************************************************************)
EXTENDS Integers, Sequences, FiniteSets, TLC

\* ---------------------------------------------------------------- bounds
MaxSockets == 3       \* connection attempts (_doConnect calls) in one run
MaxCmds == 2          \* application commands submitted in one run
MaxQueue == 3         \* length the outbound queue may reach
MaxRetryCfg == 1      \* largest finite maxReconnectAttempts configured
MaxAttempts == 12     \* largest count of retries already made at the start
RandomSteps == 10     \* Math.random() is one of 0, 1/RandomSteps, ...

\* ------------------------------------------------------ program constants
HEARTBEAT_TICKS == 3  \* setInterval(..., 30000)
PONG_TIMEOUT == 7     \* Date.now() - _lastPong > 70000
Infinity == 1000      \* options.maxReconnectAttempts ?? Infinity
BASE_RECONNECT_MS == 1000
MAX_RECONNECT_MS == 30000
JITTER_TENTHS == 3    \* JITTER_FACTOR = 0.3

Sockets == 1..MaxSockets
Topics == {"table/orders/p1"}
Handlers == {"h1", "h2"}
Listeners == {"l1"}
Events == {"INSERT", "DELETE", "*"}
PongCap == PONG_TIMEOUT + 1

VARIABLES
  status,               \* _status
  ws,                   \* ws: 0 is null, else the socket the field refers to
  sock,                 \* state of the transport created by attempt k
  promise,              \* state of the promise of attempt k
  connectingPromise,    \* _connectingPromise: 0 is null, else the attempt
  nAttempts,            \* number of _doConnect calls made so far
  reconnectTimer,       \* reconnectTimer: "null", "pending" or "fired"
  heartbeatTimer,       \* heartbeatTimer: 0 is null, else the interval id
  hbLeft,               \* interval id -> ticks until it fires, -1 not running
  reconnectAttempts,    \* reconnectAttempts
  maxReconnectAttempts, \* _maxReconnectAttempts
  sendQueue,            \* _sendQueue
  lastPongSet,          \* _lastPong > 0
  pongAge,              \* Date.now() - _lastPong, saturated at PongCap
  subscriptions,        \* keys of the subscriptions map
  isSubscribed,         \* topic -> _isSubscribed
  callbacks,            \* topic -> event -> handlers in insertion order
  maxRetriesListeners,  \* _maxRetriesListeners
  statusListeners,      \* _statusListeners
  nextId,               \* next command identity
  discarded,            \* identities of the commands dropped by disconnect()
  userDisconnected,     \* disconnect() was called and connect() not since
  out                   \* what the last callback did (observable effects)

vars == <<status, ws, sock, promise, connectingPromise, nAttempts,
          reconnectTimer, heartbeatTimer, hbLeft, reconnectAttempts,
          maxReconnectAttempts, sendQueue, lastPongSet, pongAge,
          subscriptions, isSubscribed, callbacks, maxRetriesListeners,
          statusListeners, nextId, discarded, userDisconnected, out>>

connVars == <<status, ws, sock, promise, connectingPromise, nAttempts,
              reconnectTimer, heartbeatTimer, hbLeft, reconnectAttempts>>
subVars == <<subscriptions, isSubscribed, callbacks>>

\* ---------------------------------------------------------------- helpers
RECURSIVE SeqOfSet(_)
SeqOfSet(S) ==
  IF S = {} THEN << >>
  ELSE LET m == CHOOSE x \in S : TRUE
       IN <<m>> \o SeqOfSet(S \ {m})

\* The effects of one callback, reported in the variable out.
NoMsg == [type |-> "", topic |-> "", operation |-> ""]
NoOut == [op |-> "none", sock |-> 0, topic |-> "", target |-> 0,
          frames |-> << >>, flushed |-> 0, queued |-> << >>,
          threw |-> FALSE, exhausted |-> {}, created |-> 0,
          msg |-> NoMsg, invoked |-> << >>, thrown |-> {},
          calls |-> << >>, delay |-> 0, jitter |-> 0]

Out(op, s) == [NoOut EXCEPT !.op = op, !.sock = s]

Frame(type, topic, id) == [type |-> type, topic |-> topic, id |-> id]

\* ------------------------------------------------------------------ state
\* The client after construction, but for the option maxReconnectAttempts.
InitState ==
  /\ status = "idle"
  /\ ws = 0
  /\ sock = [k \in Sockets |-> "none"]
  /\ promise = [k \in Sockets |-> "none"]
  /\ connectingPromise = 0
  /\ nAttempts = 0
  /\ reconnectTimer = "null"
  /\ heartbeatTimer = 0
  /\ hbLeft = [k \in Sockets |-> -1]
  /\ reconnectAttempts = 0
  /\ sendQueue = << >>
  /\ lastPongSet = FALSE
  /\ pongAge = PongCap
  /\ subscriptions = {}
  /\ isSubscribed = [t \in Topics |-> FALSE]
  /\ callbacks = [t \in Topics |-> [e \in Events |-> << >>]]
  /\ maxRetriesListeners = {}
  /\ statusListeners = {}
  /\ nextId = 1
  /\ discarded = {}
  /\ userDisconnected = FALSE
  /\ out = NoOut

\* new NodeRealtimeClient(options) without maxReconnectAttempts.
Init ==
  /\ InitState
  /\ maxReconnectAttempts = Infinity

\* new NodeRealtimeClient(options) with or without maxReconnectAttempts.
InitConfigured ==
  /\ InitState
  /\ maxReconnectAttempts \in (0..MaxRetryCfg) \cup {Infinity}

\* A client with default options whose last n transports were lost without
\* opening: n retries are counted and the timer of the next one is pending.
InitRetried ==
  /\ status = "reconnecting"
  /\ ws = 0
  /\ sock = [k \in Sockets |-> "none"]
  /\ promise = [k \in Sockets |-> "none"]
  /\ connectingPromise = 0
  /\ nAttempts = 0
  /\ reconnectTimer = "pending"
  /\ heartbeatTimer = 0
  /\ hbLeft = [k \in Sockets |-> -1]
  /\ reconnectAttempts \in 1..MaxAttempts
  /\ maxReconnectAttempts = Infinity
  /\ sendQueue = << >>
  /\ lastPongSet = FALSE
  /\ pongAge = PongCap
  /\ subscriptions = {}
  /\ isSubscribed = [t \in Topics |-> FALSE]
  /\ callbacks = [t \in Topics |-> [e \in Events |-> << >>]]
  /\ maxRetriesListeners = {}
  /\ statusListeners = {}
  /\ nextId = 1
  /\ discarded = {}
  /\ userDisconnected = FALSE
  /\ out = NoOut

\* --------------------------------------------------------- outbound path
\* NodeRealtimeClient._send: transmit when there is a handle and the status
\* is 'connected', else append to the queue.  The result is the new queue
\* and the frames handed to ws.send.
Send(st, w, q, f) ==
  IF w # 0 /\ st = "connected"
  THEN [queue |-> q, tx |-> <<f>>]
  ELSE [queue |-> Append(q, f), tx |-> << >>]

RECURSIVE SendAll(_, _, _, _)
SendAll(st, w, q, fs) ==
  IF fs = << >> THEN [queue |-> q, tx |-> << >>]
  ELSE LET r == Send(st, w, q, Head(fs))
           rest == SendAll(st, w, r.queue, Tail(fs))
       IN [queue |-> rest.queue, tx |-> r.tx \o rest.tx]

\* The bound on the queue: a send that would queue needs room.
CanSend == (ws # 0 /\ status = "connected") \/ Len(sendQueue) < MaxQueue
CanCommand == nextId <= MaxCmds /\ CanSend

\* ws.close() on transport x: an opening or open transport starts closing.
CloseSock(sk, x) ==
  IF x # 0 /\ sk[x] \in {"opening", "open"}
  THEN [sk EXCEPT ![x] = "closing"]
  ELSE sk

\* stopHeartbeat: clearInterval of the interval the field refers to.
StopHeartbeat(hb, field) ==
  IF field # 0 THEN [hb EXCEPT ![field] = -1] ELSE hb

\* ------------------------------------------------- RealtimeSubscription
\* channel(topic): create the subscription on first use.
Channel(t) ==
  /\ t \notin subscriptions
  /\ subscriptions' = subscriptions \cup {t}
  /\ out' = Out("channel", 0)
  /\ UNCHANGED <<connVars, maxReconnectAttempts, sendQueue, lastPongSet,
                 pongAge, isSubscribed, callbacks, maxRetriesListeners, statusListeners,
                 nextId, discarded, userDisconnected>>

\* on(event, callback): add the callback to the event's Set.
OnAdd(cbs, e, h) ==
  IF \E i \in 1..Len(cbs[e]) : cbs[e][i] = h
  THEN cbs
  ELSE [cbs EXCEPT ![e] = Append(@, h)]

On(t, e, h) ==
  /\ t \in subscriptions
  /\ callbacks' = [callbacks EXCEPT ![t] = OnAdd(@, e, h)]
  /\ out' = [Out("on", 0) EXCEPT !.topic = t]
  /\ UNCHANGED <<connVars, maxReconnectAttempts, sendQueue, lastPongSet,
                 pongAge, subscriptions, isSubscribed, maxRetriesListeners, statusListeners,
                 nextId, discarded, userDisconnected>>

\* The frames subscribe() hands to _send: none when already subscribed.
SubscribeFrames(t, subscribed, id) ==
  IF subscribed THEN << >> ELSE <<Frame("subscribe", t, id)>>

Subscribe(t) ==
  /\ t \in subscriptions
  /\ isSubscribed[t] \/ CanCommand
  /\ LET r == SendAll(status, ws, sendQueue,
                      SubscribeFrames(t, isSubscribed[t], nextId))
     IN /\ sendQueue' = r.queue
        /\ out' = [Out("subscribe", 0) EXCEPT !.topic = t, !.target = ws, !.frames = r.tx,
                     !.queued = SubSeq(r.queue, Len(sendQueue) + 1, Len(r.queue))]
  /\ isSubscribed' = [isSubscribed EXCEPT ![t] = TRUE]
  /\ nextId' = IF isSubscribed[t] THEN nextId ELSE nextId + 1
  /\ UNCHANGED <<connVars, maxReconnectAttempts, lastPongSet, pongAge,
                 subscriptions, callbacks, maxRetriesListeners, statusListeners, discarded,
                 userDisconnected>>

\* The frames unsubscribe() hands to _send: none when not subscribed.
UnsubscribeFrames(t, subscribed, id) ==
  IF subscribed THEN <<Frame("unsubscribe", t, id)>> ELSE << >>

\* The handler map after unsubscribe(): cleared only past the early return.
UnsubscribeCallbacks(cbs, subscribed) ==
  IF subscribed THEN [e \in Events |-> << >>] ELSE cbs

Unsubscribe(t) ==
  /\ t \in subscriptions
  /\ ~isSubscribed[t] \/ CanCommand
  /\ LET r == SendAll(status, ws, sendQueue,
                      UnsubscribeFrames(t, isSubscribed[t], nextId))
     IN /\ sendQueue' = r.queue
        /\ out' = [Out("unsubscribe", 0) EXCEPT !.topic = t, !.target = ws, !.frames = r.tx,
                     !.queued = SubSeq(r.queue, Len(sendQueue) + 1, Len(r.queue))]
  /\ isSubscribed' = [isSubscribed EXCEPT ![t] = FALSE]
  /\ callbacks' = [callbacks EXCEPT
                     ![t] = UnsubscribeCallbacks(@, isSubscribed[t])]
  /\ nextId' = IF isSubscribed[t] THEN nextId + 1 ELSE nextId
  /\ UNCHANGED <<connVars, maxReconnectAttempts, lastPongSet, pongAge,
                 subscriptions, maxRetriesListeners, statusListeners, discarded,
                 userDisconnected>>

\* sendChat(roomId, text) and setToken(newToken): one _send each.
SendCommand(type) ==
  /\ CanCommand
  /\ LET r == Send(status, ws, sendQueue, Frame(type, "", nextId))
     IN /\ sendQueue' = r.queue
        /\ out' = [Out(type, 0) EXCEPT !.target = ws, !.frames = r.tx,
                     !.queued = SubSeq(r.queue, Len(sendQueue) + 1, Len(r.queue))]
  /\ nextId' = nextId + 1
  /\ UNCHANGED <<connVars, maxReconnectAttempts, lastPongSet, pongAge,
                 subVars, maxRetriesListeners, statusListeners, discarded, userDisconnected>>

SendChat == SendCommand("chat")
SetToken == SendCommand("auth")

\* onMaxRetriesExceeded(cb) and the unsubscribe function it returns.
OnMaxRetriesExceeded(l) ==
  /\ maxRetriesListeners' =
       IF l \in maxRetriesListeners THEN maxRetriesListeners \ {l}
       ELSE maxRetriesListeners \cup {l}
  /\ out' = Out("listen", 0)
  /\ UNCHANGED <<connVars, maxReconnectAttempts, sendQueue, lastPongSet,
                 pongAge, subVars, statusListeners, nextId, discarded,
                 userDisconnected>>

\* onStatusChange(cb) and the unsubscribe function it returns.  The
\* listener is one that sends a chat command when it is notified of
\* 'connected' and does nothing for the other statuses.
OnStatusChange(l) ==
  /\ statusListeners' =
       IF l \in statusListeners THEN statusListeners \ {l}
       ELSE statusListeners \cup {l}
  /\ out' = Out("watch", 0)
  /\ UNCHANGED <<connVars, maxReconnectAttempts, sendQueue, lastPongSet,
                 pongAge, subVars, maxRetriesListeners, nextId, discarded,
                 userDisconnected>>

\* ------------------------------------------------------------- connect()
\* What the promise executor of _doConnect does before it returns: it
\* creates the transport (a global WebSocket), fails (the constructor
\* throws), or suspends at the dynamic import of "ws".
Outcomes == {"created", "throws", "import"}

\* _doConnect as attempt k with outcome o; the status is 'connecting' until
\* the catch block sets 'disconnected'.
DoConnect(k, o) ==
  /\ nAttempts' = k
  /\ status' = IF o = "throws" THEN "disconnected" ELSE "connecting"
  /\ ws' = IF o = "created" THEN k ELSE ws
  /\ sock' = [sock EXCEPT ![k] = CASE o = "created" -> "opening"
                                   [] o = "throws" -> "aborted"
                                   [] OTHER -> "importing"]
  /\ promise' = [promise EXCEPT
                   ![k] = IF o = "throws" THEN "rejected" ELSE "pending"]
  /\ connectingPromise' = IF o = "throws" THEN 0 ELSE k

\* connect(): nothing when connected, the in-flight promise when there is
\* one, else a new attempt.  ConnectStarts tells whether one is started;
\* the bound MaxSockets limits the attempts of a run.
ConnectStarts ==
  /\ ~(ws # 0 /\ status = "connected")
  /\ connectingPromise = 0

ConnectCall(o) ==
  IF ConnectStarts
  THEN /\ nAttempts < MaxSockets
       /\ DoConnect(nAttempts + 1, o)
  ELSE /\ o = "created"
       /\ UNCHANGED <<status, ws, sock, promise, connectingPromise, nAttempts>>

ConnectOut(op, o) ==
  [Out(op, 0) EXCEPT
     !.created = IF ConnectStarts /\ o # "throws" THEN nAttempts + 1 ELSE 0]

\* The application calls connect(); O is what the runtime can do.
ConnectWith(O) ==
  /\ \E o \in O :
       /\ ConnectCall(o)
       /\ out' = ConnectOut("connect", o)
  /\ userDisconnected' = FALSE
  /\ UNCHANGED <<reconnectTimer, heartbeatTimer, hbLeft, reconnectAttempts,
                 maxReconnectAttempts, sendQueue, lastPongSet, pongAge,
                 subVars, maxRetriesListeners, statusListeners, nextId, discarded>>

Connect == ConnectWith(Outcomes)
ConnectGlobal == ConnectWith({"created"})

\* The reconnect timer fires: connect().catch(() => {}).
ReconnectFireWith(O) ==
  /\ reconnectTimer = "pending"
  /\ reconnectTimer' = "fired"
  /\ \E o \in O :
       /\ ConnectCall(o)
       /\ out' = ConnectOut("timer", o)
  /\ UNCHANGED <<heartbeatTimer, hbLeft, reconnectAttempts,
                 maxReconnectAttempts, sendQueue, lastPongSet, pongAge,
                 subVars, maxRetriesListeners, statusListeners, nextId, discarded,
                 userDisconnected>>

ReconnectFire == ReconnectFireWith(Outcomes)
ReconnectFireGlobal == ReconnectFireWith({"created"})

\* The import of "ws" completes: the transport is created, or the import or
\* the constructor throws and the catch block rejects.
ImportDone(k, ok) ==
  /\ sock[k] = "importing"
  /\ sock' = [sock EXCEPT ![k] = IF ok THEN "opening" ELSE "aborted"]
  /\ ws' = IF ok THEN k ELSE ws
  /\ status' = IF ok THEN status ELSE "disconnected"
  /\ promise' = [promise EXCEPT ![k] = IF ok THEN @ ELSE "rejected"]
  /\ connectingPromise' = IF ok THEN connectingPromise ELSE 0
  /\ out' = [Out("import", k) EXCEPT !.created = IF ok THEN k ELSE 0]
  /\ UNCHANGED <<nAttempts, reconnectTimer, heartbeatTimer, hbLeft,
                 reconnectAttempts, maxReconnectAttempts, sendQueue,
                 lastPongSet, pongAge, subVars, maxRetriesListeners, statusListeners, nextId,
                 discarded, userDisconnected>>

\* ---------------------------------------------------------------- onopen
\* The subscribe() calls of the re-subscribe loop: one for each subscription
\* whose isSubscribed is true, each handing its frames to _send.
Resubscribe ==
  LET active == {t \in subscriptions : isSubscribed[t]}
      order == SeqOfSet(active)
      F[i \in 0..Len(order)] ==
        IF i = 0 THEN << >>
        ELSE F[i - 1] \o SubscribeFrames(order[i], isSubscribed[order[i]], 0)
  IN F[Len(order)]

\* The commands the status listeners hand to _send when _setStatus notifies
\* them of 'connected': one chat command each.
ListenerFrames(ls, id) ==
  LET order == SeqOfSet(ls)
  IN [i \in 1..Len(order) |-> Frame("chat", "", id + i - 1)]

\* ws.onopen of transport s.  _setStatus('connected') runs the status
\* listeners first; then the flush loop calls this.ws.send: with a non-empty
\* queue and a null handle it throws and the rest does not run.
OnOpen(s) ==
  /\ sock[s] = "opening"
  /\ statusListeners # {} =>
       /\ nextId + Cardinality(statusListeners) - 1 <= MaxCmds
       /\ ws # 0 \/ Len(sendQueue) + Cardinality(statusListeners) <= MaxQueue
  /\ sock' = [sock EXCEPT ![s] = "open"]
  /\ status' = "connected"
  /\ reconnectAttempts' = 0
  /\ lastPongSet' = TRUE
  /\ pongAge' = 0
  /\ heartbeatTimer' = s
  /\ hbLeft' = [hbLeft EXCEPT ![s] = HEARTBEAT_TICKS]
  /\ nextId' = nextId + Cardinality(statusListeners)
  /\ LET l == SendAll("connected", ws, sendQueue,
                      ListenerFrames(statusListeners, nextId))
     IN IF l.queue # << >> /\ ws = 0
        THEN /\ out' = [Out("open", s) EXCEPT !.threw = TRUE]
             /\ sendQueue' = l.queue
             /\ UNCHANGED <<promise, connectingPromise>>
        ELSE LET r == SendAll("connected", ws, << >>, Resubscribe)
             IN /\ sendQueue' = r.queue
                /\ out' = [Out("open", s) EXCEPT
                             !.target = ws, !.frames = l.tx \o l.queue \o r.tx,
                             !.flushed = Len(l.queue), !.queued = r.queue]
                /\ promise' = [promise EXCEPT
                                 ![s] = IF @ = "pending" THEN "resolved"
                                        ELSE @]
                /\ connectingPromise' =
                     IF promise[s] = "pending" THEN 0 ELSE connectingPromise
  /\ UNCHANGED <<ws, nAttempts, reconnectTimer, maxReconnectAttempts,
                 subVars, maxRetriesListeners, statusListeners, discarded,
                 userDisconnected>>

\* ------------------------------------------------------------- onmessage
MsgTopics == Topics \cup {"chat/lobby/p1"}
MsgOps == Events \cup {"UPDATE"}
Messages ==
  [type : {"db_change"}, topic : MsgTopics, operation : MsgOps]
  \cup [type : {"pong", "chat_message", "ack"}, topic : MsgTopics,
        operation : {"INSERT"}]

\* RealtimeSubscription._emit: the handlers of the payload's operation, then
\* the handlers of '*', each in the insertion order of its Set.
Emit(cbs, op) ==
  (IF op \in DOMAIN cbs THEN cbs[op] ELSE << >>) \o cbs["*"]

\* A router that looks at the topic alone.
RoutedByTopic(m) ==
  IF m.topic \in subscriptions
  THEN Emit(callbacks[m.topic], m.operation)
  ELSE << >>

\* handleMessage: the handlers invoked for message m, in order.
Routed(m) ==
  IF m.type = "pong" THEN << >>
  ELSE IF m.type \in {"db_change", "chat_message"}
            /\ m.topic \in subscriptions
       THEN Emit(callbacks[m.topic], m.operation)
       ELSE << >>

\* handleMessage: a 'pong' records Date.now() in _lastPong.
PongSeen(m) == m.type = "pong"

\* ws.onmessage of transport s with the parsed message m.
OnMessage(s, m) ==
  /\ sock[s] = "open"
  /\ lastPongSet' = (lastPongSet \/ PongSeen(m))
  /\ pongAge' = IF PongSeen(m) THEN 0 ELSE pongAge
  /\ out' = [Out("message", s) EXCEPT !.msg = m, !.invoked = Routed(m)]
  /\ UNCHANGED <<connVars, maxReconnectAttempts, sendQueue, subVars,
                 maxRetriesListeners, statusListeners, nextId, discarded, userDisconnected>>

\* ------------------------------------------- handlers that do something
\* What a handler does when it is invoked: it returns, it throws, or it
\* calls back into its subscription (unsubscribe(), or on(e2, h2)) and
\* returns.
HandlerActs == {"returns", "throws", "unsubscribe", "on"}
Behaviours == [Handlers -> HandlerActs]

\* The state a dispatch works on: the subscription's handler map and flag,
\* the client's queue, the frames transmitted, the next command identity,
\* and what was invoked, threw and was called back so far.
DispatchStart(t) ==
  [cbs |-> callbacks[t], sub |-> isSubscribed[t], queue |-> sendQueue,
   tx |-> << >>, id |-> nextId, invoked |-> << >>, thrown |-> {},
   calls |-> << >>, aborted |-> FALSE]

\* The call a handler makes on its subscription: unsubscribe() or on().
Reenter(d, t, act, e2, h2) ==
  CASE act = "unsubscribe" ->
         LET r == SendAll(status, ws, d.queue,
                          UnsubscribeFrames(t, d.sub, d.id))
         IN [d EXCEPT !.queue = r.queue, !.tx = @ \o r.tx,
                      !.id = IF d.sub THEN @ + 1 ELSE @,
                      !.sub = FALSE,
                      !.cbs = UnsubscribeCallbacks(@, d.sub),
                      !.calls = Append(@, "unsubscribe")]
    [] act = "on" ->
         [d EXCEPT !.cbs = OnAdd(@, e2, h2), !.calls = Append(@, "on")]
    [] OTHER -> d

\* A loop body that lets the exception of a handler escape.
ContinuesUnlessThrown(act) == act # "throws"

\* try { cb(payload) } catch (e) { console.error(...) }: the loop goes on
\* whatever the handler did.
Continues(act) == TRUE

\* Set.forEach over the Set found under kind e, from position i on.  The
\* Set is the map's Set for e (attached) until callbacks.clear() empties
\* the map; while attached, a handler added to it is visited as well.
RECURSIVE ForEach(_, _, _, _, _, _, _, _, _)
ForEach(d, t, e, set, i, attached, beh, e2, h2) ==
  IF i > Len(set) THEN d
  ELSE LET h == set[i]
           act == beh[h]
           d1 == [d EXCEPT !.invoked = Append(@, h),
                           !.thrown = IF act = "throws" THEN @ \cup {h}
                                      ELSE @]
           d2 == Reenter(d1, t, act, e2, h2)
           att2 == attached /\ ~(act = "unsubscribe" /\ d.sub)
           set2 == IF att2 THEN d2.cbs[e] ELSE set
       IN IF Continues(act)
          THEN ForEach(d2, t, e, set2, i + 1, att2, beh, e2, h2)
          ELSE [d2 EXCEPT !.aborted = TRUE]

\* RealtimeSubscription._emit with handlers that behave as beh says: the
\* Set of the payload's operation, then the Set of '*', each looked up in
\* the map when its loop starts.
EmitWith(t, op, beh, e2, h2) ==
  LET d0 == DispatchStart(t)
      d1 == IF op \in DOMAIN d0.cbs
            THEN ForEach(d0, t, op, d0.cbs[op], 1, TRUE, beh, e2, h2)
            ELSE d0
  IN IF d1.aborted THEN d1
     ELSE ForEach(d1, t, "*", d1.cbs["*"], 1, TRUE, beh, e2, h2)

\* handleMessage: TRUE when message m is handed to a subscription.
Delivered(m) ==
  /\ m.type # "pong"
  /\ m.type \in {"db_change", "chat_message"}
  /\ m.topic \in subscriptions

\* ws.onmessage of transport s with the parsed message m and handlers
\* that behave as beh says; on(e2, h2) is the registration a handler makes.
OnMessageWith(s, m, beh, e2, h2) ==
  /\ sock[s] = "open"
  /\ (\E h \in Handlers : beh[h] = "unsubscribe") => CanCommand
  /\ lastPongSet' = (lastPongSet \/ PongSeen(m))
  /\ pongAge' = IF PongSeen(m) THEN 0 ELSE pongAge
  /\ IF Delivered(m)
     THEN \E d \in {EmitWith(m.topic, m.operation, beh, e2, h2)} :
             /\ callbacks' = [callbacks EXCEPT ![m.topic] = d.cbs]
             /\ isSubscribed' = [isSubscribed EXCEPT ![m.topic] = d.sub]
             /\ sendQueue' = d.queue
             /\ nextId' = d.id
             /\ out' = [Out("message", s) EXCEPT
                          !.msg = m, !.topic = m.topic, !.target = ws,
                          !.frames = d.tx, !.invoked = d.invoked,
                          !.thrown = d.thrown, !.calls = d.calls]
     ELSE /\ out' = [Out("message", s) EXCEPT !.msg = m]
          /\ UNCHANGED <<callbacks, isSubscribed, sendQueue, nextId>>
  /\ UNCHANGED <<connVars, maxReconnectAttempts, subscriptions,
                 maxRetriesListeners, statusListeners, discarded, userDisconnected>>

\* --------------------------------------------------- onerror and onclose
\* ws.onerror of transport s: the status becomes 'disconnected' and the
\* attempt's promise is rejected (no effect on a settled promise).  The
\* transport delivers nothing but its close after an error.
OnError(s) ==
  /\ sock[s] \in {"opening", "open", "closing"}
  /\ sock' = [sock EXCEPT ![s] = "failing"]
  /\ status' = "disconnected"
  /\ promise' = [promise EXCEPT
                   ![s] = IF @ = "pending" THEN "rejected" ELSE @]
  /\ connectingPromise' =
       IF promise[s] = "pending" THEN 0 ELSE connectingPromise
  /\ out' = Out("error", s)
  /\ UNCHANGED <<ws, nAttempts, reconnectTimer, heartbeatTimer, hbLeft,
                 reconnectAttempts, maxReconnectAttempts, sendQueue,
                 lastPongSet, pongAge, subVars, maxRetriesListeners, statusListeners, nextId,
                 discarded, userDisconnected>>

\* A retry limit that is off by one.
ExhaustedLate(attempts, limit) == attempts > limit

\* scheduleReconnect: TRUE when the retry limit stops it.
Exhausted(attempts, limit) == attempts >= limit

\* A retry that is not counted.
NotCounted(attempts) == attempts

\* scheduleReconnect: reconnectAttempts++ of a scheduled retry.
Counted(attempts) == attempts + 1

\* Math.pow(2, n).
RECURSIVE Pow2(_)
Pow2(n) == IF n = 0 THEN 1 ELSE 2 * Pow2(n - 1)

\* A delay that doubles without a cap.
BackoffUncapped(attempts) == BASE_RECONNECT_MS * Pow2(attempts)

\* scheduleReconnect: the delay before jitter, in ms.
Backoff(attempts) ==
  IF BASE_RECONNECT_MS * Pow2(attempts) < MAX_RECONNECT_MS
  THEN BASE_RECONNECT_MS * Pow2(attempts)
  ELSE MAX_RECONNECT_MS

\* The values of Math.random(), in units of 1/RandomSteps: 0 <= random < 1.
Randoms == 0..(RandomSteps - 1)

\* scheduleReconnect: delay * JITTER_FACTOR * Math.random(), in units of
\* 1/(10 * RandomSteps) ms.
Jitter(delay, rnd) == delay * JITTER_TENTHS * rnd

\* ws.onclose of transport s: 'reconnecting', stopHeartbeat, the handle is
\* dropped, then scheduleReconnect (stopReconnect, and either the give-up
\* branch or a new timer and one more attempt counted).  Rnd is what
\* Math.random() can return.
OnCloseWith(s, Rnd) ==
  /\ sock[s] \in {"opening", "open", "closing", "failing"}
  /\ sock' = [sock EXCEPT ![s] = "closed"]
  /\ hbLeft' = StopHeartbeat(hbLeft, heartbeatTimer)
  /\ heartbeatTimer' = 0
  /\ ws' = 0
  /\ IF Exhausted(reconnectAttempts, maxReconnectAttempts)
     THEN /\ status' = "disconnected"
          /\ reconnectTimer' = "null"
          /\ out' = [Out("close", s) EXCEPT !.exhausted = maxRetriesListeners]
          /\ UNCHANGED reconnectAttempts
     ELSE /\ status' = "reconnecting"
          /\ reconnectAttempts' = Counted(reconnectAttempts)
          /\ reconnectTimer' = "pending"
          /\ \E rnd \in Rnd :
               out' = [Out("close", s) EXCEPT
                         !.delay = Backoff(reconnectAttempts),
                         !.jitter = Jitter(Backoff(reconnectAttempts), rnd)]
  /\ UNCHANGED <<promise, connectingPromise, nAttempts,
                 maxReconnectAttempts, sendQueue, lastPongSet, pongAge,
                 subVars, maxRetriesListeners, statusListeners, nextId, discarded,
                 userDisconnected>>

\* Where the reconnect timer may fire at any time the jitter plays no part:
\* one value of Math.random() stands for all.
OnClose(s) == OnCloseWith(s, {0})

\* ------------------------------------------------------------ disconnect
\* A disconnect() that forgets the queue.
DisconnectQueueKept(q) == q

\* The queue after disconnect().
DisconnectQueue(q) == << >>

\* disconnect(): 'disconnected', stopReconnect, stopHeartbeat, close and drop
\* the handle, empty the queue.
Disconnect ==
  /\ status' = "disconnected"
  /\ reconnectTimer' = "null"
  /\ hbLeft' = StopHeartbeat(hbLeft, heartbeatTimer)
  /\ heartbeatTimer' = 0
  /\ sock' = CloseSock(sock, ws)
  /\ ws' = 0
  /\ sendQueue' = DisconnectQueue(sendQueue)
  /\ discarded' = discarded \cup
       ({sendQueue[i].id : i \in 1..Len(sendQueue)} \ {0})
  /\ userDisconnected' = TRUE
  /\ out' = Out("disconnect", 0)
  /\ UNCHANGED <<promise, connectingPromise, nAttempts, reconnectAttempts,
                 maxReconnectAttempts, lastPongSet, pongAge, subVars,
                 maxRetriesListeners, statusListeners, nextId>>

\* ------------------------------------------------------------- heartbeat
\* The test of the heartbeat callback.
PongOverdue(set, age) == set /\ age > PONG_TIMEOUT

\* The callback of interval i: _send of a ping, then this.ws?.close() when
\* the last pong is overdue.
HeartbeatFire(i) ==
  /\ hbLeft[i] = 0
  /\ CanSend
  /\ hbLeft' = [hbLeft EXCEPT ![i] = HEARTBEAT_TICKS]
  /\ LET r == Send(status, ws, sendQueue, Frame("ping", "", 0))
         closes == PongOverdue(lastPongSet, pongAge)
     IN /\ sendQueue' = r.queue
        /\ sock' = IF closes THEN CloseSock(sock, ws) ELSE sock
        /\ out' = [Out("heartbeat", i) EXCEPT
                     !.target = ws, !.frames = r.tx,
                     !.queued = SubSeq(r.queue, Len(sendQueue) + 1,
                                       Len(r.queue))]
  /\ UNCHANGED <<status, ws, promise, connectingPromise, nAttempts,
                 reconnectTimer, heartbeatTimer, reconnectAttempts,
                 maxReconnectAttempts, lastPongSet, pongAge, subVars,
                 maxRetriesListeners, statusListeners, nextId, discarded, userDisconnected>>

\* 10 s pass: no interval is due, every running interval is 10 s closer.
Tick ==
  /\ \A i \in Sockets : hbLeft[i] # 0
  /\ \E i \in Sockets : hbLeft[i] > 0
  /\ hbLeft' = [i \in Sockets |-> IF hbLeft[i] > 0 THEN hbLeft[i] - 1 ELSE -1]
  /\ pongAge' = IF pongAge < PongCap THEN pongAge + 1 ELSE PongCap
  /\ out' = Out("tick", 0)
  /\ UNCHANGED <<status, ws, sock, promise, connectingPromise, nAttempts,
                 reconnectTimer, heartbeatTimer, reconnectAttempts,
                 maxReconnectAttempts, sendQueue, lastPongSet, subVars,
                 maxRetriesListeners, statusListeners, nextId, discarded, userDisconnected>>

\* -------------------------------------------------------- specifications
\* The application's commands.
Commands ==
  \/ \E t \in Topics : Channel(t)
  \/ \E t \in Topics : Subscribe(t)
  \/ \E t \in Topics : Unsubscribe(t)
  \/ SendChat
  \/ SetToken

\* The transport's notifications.
Transport ==
  \/ \E s \in Sockets : OnOpen(s)
  \/ \E s \in Sockets : OnError(s)
  \/ \E s \in Sockets : OnClose(s)

\* Default options, every runtime, commands and lifecycle; no time passes
\* (every run is shorter than one heartbeat interval).
Next ==
  \/ Commands
  \/ Connect
  \/ ReconnectFire
  \/ \E k \in Sockets, ok \in BOOLEAN : ImportDone(k, ok)
  \/ Transport
  \/ Disconnect

Spec == Init /\ [][Next]_vars

\* Any retry limit, every runtime, lifecycle and retries-exhausted
\* listeners; no commands, no time.
NextRetry ==
  \/ \E l \in Listeners : OnMaxRetriesExceeded(l)
  \/ Connect
  \/ ReconnectFire
  \/ \E k \in Sockets, ok \in BOOLEAN : ImportDone(k, ok)
  \/ Transport
  \/ Disconnect

SpecRetry == InitConfigured /\ [][NextRetry]_vars

\* Any retry limit, a runtime with a global WebSocket, lifecycle, time, the
\* heartbeat and the peer's pongs.
NextHeartbeat ==
  \/ ConnectGlobal
  \/ ReconnectFireGlobal
  \/ Transport
  \/ \E s \in Sockets : OnMessage(s, [NoMsg EXCEPT !.type = "pong"])
  \/ Disconnect
  \/ \E i \in Sockets : HeartbeatFire(i)
  \/ Tick

SpecHeartbeat == InitConfigured /\ [][NextHeartbeat]_vars

\* Default options, a runtime with a global WebSocket, one connection that
\* opens, subscriptions with handlers, every inbound message, time.
NextDispatch ==
  \/ \E t \in Topics : Channel(t)
  \/ \E t \in Topics, e \in Events, h \in Handlers : On(t, e, h)
  \/ \E t \in Topics : Subscribe(t)
  \/ \E t \in Topics : Unsubscribe(t)
  \/ ConnectGlobal
  \/ \E s \in Sockets : OnOpen(s)
  \/ \E s \in Sockets, m \in Messages : OnMessage(s, m)
  \/ \E i \in Sockets : HeartbeatFire(i)
  \/ Tick

SpecDispatch == Init /\ [][NextDispatch]_vars

\* The inbound data frames.
DataMessages == {m \in Messages : m.type = "db_change"}

\* What the handlers do during one dispatch: any of them may throw, at most
\* one of them calls back into the subscription, and the arguments of on()
\* matter only when a handler calls it.
HandlerInputs ==
  {i \in [beh : Behaviours, event : Events, handler : Handlers] :
     /\ Cardinality({h \in Handlers :
                       i.beh[h] \in {"unsubscribe", "on"}}) <= 1
     /\ (\A h \in Handlers : i.beh[h] # "on")
          => (i.event = "*" /\ i.handler = "h1")}

\* Default options, a runtime with a global WebSocket, one connection that
\* opens, subscriptions with handlers that return, throw or call back into
\* their subscription, every inbound message; no time.
NextHandlers ==
  \/ \E t \in Topics : Channel(t)
  \/ \E t \in Topics, e \in Events, h \in Handlers : On(t, e, h)
  \/ \E t \in Topics : Subscribe(t)
  \/ \E t \in Topics : Unsubscribe(t)
  \/ ConnectGlobal
  \/ \E s \in Sockets : OnOpen(s)
  \/ \E s \in Sockets, m \in DataMessages, i \in HandlerInputs :
       OnMessageWith(s, m, i.beh, i.event, i.handler)

SpecHandlers == Init /\ [][NextHandlers]_vars

\* Default options, a runtime with a global WebSocket, a client after
\* construction or after any number of lost transports, lifecycle, every
\* value of Math.random(); no commands, no time.
NextBackoff ==
  \/ ConnectGlobal
  \/ ReconnectFireGlobal
  \/ \E s \in Sockets : OnOpen(s)
  \/ \E s \in Sockets : OnError(s)
  \/ \E s \in Sockets : OnCloseWith(s, Randoms)

SpecBackoff == (Init \/ InitRetried) /\ [][NextBackoff]_vars

\* Default options, a runtime with a global WebSocket, commands, status
\* listeners, connections that open, disconnect(); no transport failure, no
\* time.
NextListener ==
  \/ Commands
  \/ \E l \in Listeners : OnStatusChange(l)
  \/ ConnectGlobal
  \/ \E s \in Sockets : OnOpen(s)
  \/ Disconnect

SpecListener == Init /\ [][NextListener]_vars

\* ------------------------------------------------------------------ claims
\* The positions of the 'subscribe' frames for topic t among frames fs.
SubscribePositions(fs, t) ==
  {i \in 1..Len(fs) : fs[i].type = "subscribe" /\ fs[i].topic = t}

\* C1: after every handled 'opened' notification, for every subscription
\* with isSubscribed = true exactly one 'subscribe' frame for its topic is
\* among the frames transmitted on the opened transport.  Stated for the
\* runs in which no disconnect() has dropped a queued command, and without
\* the claim's order (the frame comes after the flushed queue): the count
\* alone is refuted.
C1_SubscribeFrameOnEveryOpen ==
  (out.op = "open" /\ discarded = {}) =>
    \A t \in subscriptions :
      isSubscribed[t] =>
        Cardinality(SubscribePositions(out.frames, t)) = 1

\* C2: after disconnect(), until connect() is called again, the status is
\* 'disconnected', no reconnect timer is pending and no heartbeat interval
\* is running, whatever the transport notifies.
C2_DisconnectIsTerminal ==
  userDisconnected =>
    /\ status = "disconnected"
    /\ reconnectTimer # "pending"
    /\ \A i \in Sockets : hbLeft[i] = -1

\* A command submitted while the status is not 'connected' is not
\* transmitted by the call but appended to the queue.
QueuedWhenNotConnected ==
  (out'.op \in {"subscribe", "unsubscribe", "chat", "auth"}
     /\ status # "connected")
  => /\ out'.frames = << >>
     /\ sendQueue' = sendQueue \o out'.queued

\* A handled 'opened' notification transmits the whole queue, in order, on
\* the opened transport and leaves none of it queued.
FlushedOnOpen ==
  \A s \in Sockets :
    (sock[s] = "opening" /\ sock'[s] = "open" /\ sendQueue # << >>)
    => /\ out'.target = s
       /\ out'.flushed = Len(sendQueue)
       /\ SubSeq(out'.frames, 1, Len(sendQueue)) = sendQueue
       /\ \A i \in 1..Len(sendQueue') :
            \A j \in 1..Len(sendQueue) : sendQueue'[i] # sendQueue[j]

\* C3: a command sent while the status is not 'connected' is not
\* transmitted at call time but queued, and the next successful connect
\* transmits the queued commands exactly once, in the order submitted.
C3_QueuedSentOnNextOpen ==
  [][QueuedWhenNotConnected /\ FlushedOnOpen]_vars

\* C4: a command that is in the queue when disconnect() is called is never
\* transmitted afterwards: disconnect() leaves the queue empty, and no frame
\* transmitted or still queued is one that a disconnect() dropped.
C4_DiscardedNeverSent ==
  /\ out.op = "disconnect" => sendQueue = << >>
  /\ \A i \in 1..Len(out.frames) : out.frames[i].id \notin discarded
  /\ \A i \in 1..Len(sendQueue) : sendQueue[i].id \notin discarded

\* A connect after a disconnect() that dropped a command transmits a
\* command queued since.
C4_Witness ==
  /\ discarded # {}
  /\ out.op = "open"
  /\ out.flushed > 0

\* The connection attempts in flight: the transport is not created yet or
\* has not opened yet.
InFlight == {k \in Sockets : sock[k] \in {"importing", "opening"}}

\* connect() starts no attempt when the status is 'connected' and none
\* when an attempt is in flight.
NoSecondAttempt ==
  (out'.op \in {"connect", "timer"}
     /\ (status = "connected" \/ InFlight # {}))
  => (nAttempts' = nAttempts /\ sock' = sock)

\* C5: connect() (from the application or the reconnect timer) is a no-op
\* when already connected and coalesces with an attempt in flight, and at
\* most one attempt is in flight at any time.
C5_ConnectIdempotent ==
  [][NoSecondAttempt /\ Cardinality(InFlight') <= 1]_vars

\* A reconnect attempt is scheduled by this step.
Scheduled == out'.op = "close" /\ reconnectTimer' = "pending"

\* C6: the reconnect-attempt counter is 0 after every handled 'opened'
\* notification, grows by exactly 1 with every scheduled retry and changes
\* in no other step.
C6_CounterSteps ==
  [][/\ out'.op = "open" => reconnectAttempts' = 0
     /\ Scheduled => reconnectAttempts' = reconnectAttempts + 1
     /\ reconnectAttempts' # reconnectAttempts
          => (out'.op = "open" \/ Scheduled)
    ]_vars

\* A transport opened after a retry was scheduled and its timer fired.
C6_Witness ==
  /\ out.op = "open"
  /\ out.sock >= 2
  /\ reconnectTimer = "fired"
  /\ reconnectAttempts = 0

\* With the counter at the limit, a 'closed' notification ends in
\* 'disconnected', notifies every retries-exhausted listener and schedules
\* no timer.
GiveUpAtLimit ==
  (out'.op = "close" /\ reconnectAttempts >= maxReconnectAttempts)
  => /\ status' = "disconnected"
     /\ out'.exhausted = maxRetriesListeners
     /\ reconnectTimer' # "pending"

\* The retries-exhausted notification fires only at the limit.
NotifiedOnlyAtLimit ==
  out'.exhausted # {} => reconnectAttempts >= maxReconnectAttempts

ForcedClosed ==
  (out'.op = "heartbeat" /\ status = "connected"
     /\ pongAge > PONG_TIMEOUT
     /\ \E s \in Sockets : sock[s] = "open")
  => \E s \in Sockets : sock[s] = "open" /\ sock'[s] = "closing"

\* A 'closed' notification ends in 'reconnecting' with a retry scheduled,
\* or at the retry limit in 'disconnected'.
ClosedReconnects ==
  out'.op = "close"
  => IF reconnectAttempts >= maxReconnectAttempts
     THEN status' = "disconnected"
     ELSE status' = "reconnecting" /\ reconnectTimer' = "pending"

\* C8: while connected, a heartbeat tick more than 70 s after the last pong
\* forces the transport closed, and the 'closed' notification puts the
\* manager in 'reconnecting' with a retry scheduled (unless the limit is
\* reached).
C8_MissedPongReconnects ==
  [][ForcedClosed /\ ClosedReconnects]_vars

\* C9: an inbound 'pong' records the time of the acknowledgment and has no
\* other effect: no handler is invoked, whatever topic it carries, and the
\* status, the handle, the queue, the counter, the timers and the
\* subscriptions stay as they are.
C9_PongOnlyTimestamp ==
  [][(out'.op = "message" /\ out'.msg.type = "pong")
     => /\ lastPongSet'
        /\ pongAge' = 0
        /\ out'.invoked = << >>
        /\ UNCHANGED <<connVars, sendQueue, subVars, maxRetriesListeners, statusListeners>>
    ]_vars

\* A 'pong' carrying the topic of a subscription with handlers was handled.
C9_Witness ==
  /\ out.op = "message"
  /\ out.msg.type = "pong"
  /\ out.msg.topic \in subscriptions
  /\ \E e \in Events : callbacks[out.msg.topic][e] # << >>
  /\ out.msg.operation \in Events
  /\ callbacks[out.msg.topic][out.msg.operation] # << >>

\* C10: unsubscribe() leaves no handler registered for the topic, in
\* whatever state the subscription is.
C10_UnsubscribeClearsHandlers ==
  out.op = "unsubscribe" =>
    \A e \in Events : callbacks[out.topic][e] = << >>

\* The number of times handler h occurs in the sequence of invocations.
Invocations(seq, h) == Cardinality({i \in 1..Len(seq) : seq[i] = h})

\* The kinds handler h is registered for on the subscription of topic t.
KindsOf(t, h) ==
  {e \in Events : \E i \in 1..Len(callbacks[t][e]) : callbacks[t][e][i] = h}

\* C11: for every inbound data frame routed to a subscription, a handler
\* registered for the frame's operation kind or for '*' is invoked exactly
\* once, and a handler registered only for another kind is not invoked,
\* whatever operation the payload carries.  Stated for the handlers that
\* are registered for one kind only.
C11_EachHandlerOnce ==
  (out.op = "message" /\ out.msg.type \in {"db_change", "chat_message"}
     /\ out.msg.topic \in subscriptions)
  => \A h \in Handlers :
       Cardinality(KindsOf(out.msg.topic, h)) = 1 =>
         Invocations(out.invoked, h) =
           IF KindsOf(out.msg.topic, h) \subseteq {out.msg.operation, "*"}
           THEN 1 ELSE 0

\* C12: a handler that throws during the dispatch of an inbound frame
\* changes nothing: the handlers invoked for the frame are the ones invoked
\* when every handler returns, and the status, the handle, the timers, the
\* queue and the subscriptions stay as they are.
C12_ThrowIsolated ==
  [][(out'.op = "message" /\ out'.thrown # {} /\ out'.calls = << >>)
     => /\ out'.invoked = Routed(out'.msg)
        /\ out'.frames = << >>
        /\ UNCHANGED <<connVars, sendQueue, subVars, nextId>>
    ]_vars

\* The first handler invoked for a frame threw and another handler was
\* invoked after it.
C12_Witness ==
  /\ out.op = "message"
  /\ out.calls = << >>
  /\ Len(out.invoked) >= 2
  /\ out.invoked[1] \in out.thrown
  /\ out.invoked[2] \notin out.thrown

\* C19: a handler that calls unsubscribe() or on() on its subscription
\* during the dispatch of a frame does not change the delivery of that
\* frame: the handlers invoked are the ones registered for the frame's kind
\* or for '*' when the dispatch began, as when no handler calls back.
\* Stated for the frames whose operation is not '*'.
C19_ReentryKeepsDelivery ==
  [][(out'.op = "message" /\ out'.calls # << >>
        /\ out'.msg.operation # "*")
     => out'.invoked = Routed(out'.msg)
    ]_vars

\* Attempt k fails in this step before its transport has opened: the
\* transport is unavailable or its constructor throws, or the opening
\* transport reports an error, or it reports 'closed' with no error before.
FailsBeforeOpen(k) ==
  /\ sock[k] \in {"none", "importing", "opening"}
  /\ sock'[k] \in {"aborted", "failing", "closed"}

\* C13: when a connection attempt fails before the transport has opened,
\* the status becomes 'disconnected' and the promise connect() returned for
\* the attempt is rejected.
C13_FailureSurfaced ==
  [][\A k \in Sockets :
       FailsBeforeOpen(k) =>
         (status' = "disconnected" /\ promise'[k] = "rejected")
    ]_vars

\* The delay the claim gives for a retry scheduled with the counter at n.
ClaimedDelay(n) ==
  CASE n = 0 -> 1000
    [] n = 1 -> 2000
    [] n = 2 -> 4000
    [] n >= 5 -> 30000
    [] OTHER -> 1000 * 2^n

\* C14: the delay of a scheduled retry, before jitter, is
\* min(1000 * 2^attempts, 30000) ms with attempts the counter before it is
\* incremented for this retry, and the jitter added is at least 0 and less
\* than 0.3 * delay (out.jitter is in units of 1/(10 * RandomSteps) ms).
C14_BackoffDelay ==
  [][Scheduled
     => /\ out'.delay = ClaimedDelay(reconnectAttempts)
        /\ reconnectAttempts' = reconnectAttempts + 1
        /\ out'.jitter >= 0
        /\ out'.jitter < 3 * out'.delay * RandomSteps
    ]_vars

\* A retry was scheduled with the capped delay and the largest jitter.
C14_Witness ==
  /\ out.op = "close"
  /\ reconnectTimer = "pending"
  /\ reconnectAttempts > 5
  /\ out.delay = 30000
  /\ out.jitter = 3 * 30000 * (RandomSteps - 1)

\* The live transports: created, opening or open, with neither an error
\* reported nor a close requested or notified.
Live == {k \in Sockets : sock[k] \in {"opening", "open"}}

\* C15: in every reachable state at most one transport created by the
\* manager is live, and the handle field refers to the live transport when
\* there is one.
C15_OneLiveHandle ==
  /\ Cardinality(Live) <= 1
  /\ \A k \in Live : ws = k

\* A handled 'opened' notification transmits the commands that were waiting
\* in the queue before any other command.
QueueGoesFirst ==
  (out'.op = "open" /\ sendQueue # << >>)
  => SubSeq(out'.frames, 1, Len(sendQueue)) = sendQueue

\* C16: whenever the status is 'connected' the outbound queue is empty, and
\* a command sent by a status listener that is notified of 'connected' is
\* not transmitted ahead of the commands waiting in the queue.
C16_ConnectedQueueEmpty ==
  [][(status' = "connected" => sendQueue' = << >>) /\ QueueGoesFirst]_vars

\* The heartbeat intervals that are running.
Running == {i \in Sockets : hbLeft[i] >= 0}

\* C17: in every reachable state at most one heartbeat interval is running,
\* one runs only while the status is 'connected', and the interval that
\* runs is the one the field heartbeatTimer refers to.
C17_OneHeartbeat ==
  /\ Cardinality(Running) <= 1
  /\ Running # {} => status = "connected"
  /\ \A i \in Running : heartbeatTimer = i

\* The changes of status of the specified state machine; op is the callback
\* that makes the change.
AllowedChange(from, to, op) ==
  \/ from = "idle" /\ to = "connecting"
  \/ from = "connecting" /\ to = "connected"
  \/ from = "connected" /\ to = "reconnecting"
  \/ from = "reconnecting" /\ to = "connecting"
  \/ to = "disconnected"
  \/ from = "disconnected" /\ to = "connecting" /\ op = "connect"

\* C18: every callback that changes the status (which is 'idle' after
\* construction) makes one of the changes of the specified state machine;
\* 'disconnected' is left only by a connect() call of the application.
C18_StatusMachine ==
  [][status' # status => AllowedChange(status, status', out'.op)]_vars

\* A 'closed' notification below the retry limit ends in 'reconnecting'
\* with the handle dropped and a reconnect timer pending.
ClosedSchedules ==
  (out'.op = "close" /\ reconnectAttempts < maxReconnectAttempts)
  => (status' = "reconnecting" /\ ws' = 0 /\ reconnectTimer' = "pending")

\* The reconnect timer that fires while the status is 'reconnecting' starts
\* a connection attempt.
TimerStartsAttempt ==
  (out'.op = "timer" /\ status = "reconnecting")
  => nAttempts' = nAttempts + 1

\* C20: a 'closed' notification below the retry limit puts the manager in
\* 'reconnecting' with the handle dropped and a timer scheduled, and when
\* that timer fires a new connection attempt is started with no call by
\* the application (no pending connect() promise blocks it).
C20_ClosedPathIsLive ==
  [][ClosedSchedules /\ TimerStartsAttempt]_vars

====
